---- MODULE Spec2Model ----
(***************************************************************************)
(* Model of src/poller/lux-parking-poller.py: the minute-aligned poll      *)
(* loop (HttpRequester.poll / HttpRequester.get), the per-entry mapping of *)
(* the RSS feed and the per-cycle SQLAlchemy session.                      *)
(*                                                                         *)
(* Time is an integer count of ticks.  A second is SubsPerSec ticks and a  *)
(* minute is SecsPerMin seconds; the wall clock is taken to be             *)
(* non-decreasing.  Feed field values that the code converts (int(),       *)
(* float(), bool(int())) are tuples of one-character strings, so that the  *)
(* conversions are computed; fields that are passed through are strings.   *)
(* A nullable column is <<>> (NULL) or <<v>>.                              *)
(*                                                                         *)
(* Spec is the whole program from its start.  SpecCycle is one cycle from  *)
(* the for statement of line 158 on, for drawn feeds.  FairSpec is Spec    *)
(* with the statements of poll() weakly fair.                              *)
(*                                                                         *)
(* The return from an except clause to the call of poll() takes no time.   *)
(* session.merge() and session.add() only change the session; the flush of *)
(* session.commit() is one transaction.  The variables poll_t, cycle_end,  *)
(* fetch_start, fetches and snapshot record history and are read by no     *)
(* action.  The module timeout is not part of the sources: the decorator   *)
(* is taken to end the whole exchange at its limit.                        *)
(***************************************************************************)
EXTENDS Integers, Sequences, FiniteSets, TLC

(* ------------------------------ bounds --------------------------------- *)
\* ticks per second (the real clock has 10^6 microseconds per second)
SubsPerSec == 2
\* seconds per minute of the scaled clock (the real clock has 60)
SecsPerMin == 6
\* the horizon: the tick after which the clock does not advance
MaxTime == 27
\* longest feed the main loop receives
MaxFeedLen == 2
\* longest batch of the single-cycle specification
MaxBatch == 3
\* number of fields in which a drawn entry may differ from the base entry
MaxDev == 2
\* ticks one pass through the loop body may take
MaxStep == 1
\* ticks one time.sleep(0.1) may take
MaxSleep == 2

(* ------------------------- program constants --------------------------- *)
\* @timeout(5)
TimeoutSecs == 5
\* park_id = 999999
BeggenId == 999999

MinuteTicks == SecsPerMin * SubsPerSec
TimeoutTicks == TimeoutSecs * SubsPerSec

(* ------------------------ datetime arithmetic -------------------------- *)
\* now.replace(second=0, microsecond=0)
FloorMinute(t) == t - (t % MinuteTicks)

\* variant: a call made exactly on a boundary keeps that boundary
NextBoundaryCeil(t) == IF t % MinuteTicks = 0 THEN t ELSE FloorMinute(t) + MinuteTicks

\* now.replace(second=0, microsecond=0) + datetime.timedelta(minutes=1)
NextBoundary(t) == FloorMinute(t) + MinuteTicks

\* datetime.datetime.now().replace(second=00): the microsecond field is kept
ReplaceSecond0(t) == FloorMinute(t) + (t % SubsPerSec)

(* --------------------------- str conversions --------------------------- *)
Digits == <<"0", "1", "2", "3", "4", "5", "6", "7", "8", "9">>

IsDigit(c) == \E i \in 1..10 : Digits[i] = c

DigitVal(c) == (CHOOSE i \in 1..10 : Digits[i] = c) - 1

RECURSIVE LStrip(_)
LStrip(s) == IF s # <<>> /\ Head(s) = " " THEN LStrip(Tail(s)) ELSE s

RECURSIVE RStrip(_)
RStrip(s) ==
    IF s # <<>> /\ s[Len(s)] = " " THEN RStrip(SubSeq(s, 1, Len(s) - 1)) ELSE s

\* str.strip(), applied by int() and float() to their argument
Strip(s) == RStrip(LStrip(s))

HasSign(s) == s # <<>> /\ Head(s) \in {"+", "-"}

Unsigned(s) == IF HasSign(s) THEN Tail(s) ELSE s

SignOf(s) == IF s # <<>> /\ Head(s) = "-" THEN -1 ELSE 1

RECURSIVE DigitsValue(_)
DigitsValue(s) ==
    IF s = <<>> THEN 0
    ELSE 10 * DigitsValue(SubSeq(s, 1, Len(s) - 1)) + DigitVal(s[Len(s)])

\* int(s) does not raise ValueError
IsIntLiteral(s) ==
    LET b == Unsigned(Strip(s))
    IN  b # <<>> /\ \A i \in 1..Len(b) : IsDigit(b[i])

\* int(s)
IntOf(s) == SignOf(Strip(s)) * DigitsValue(Unsigned(Strip(s)))

RemoveDots(s) == SelectSeq(s, LAMBDA c : c # ".")

DotCount(s) == Len(s) - Len(RemoveDots(s))

\* number of digits after the decimal point
FracLen(s) ==
    IF DotCount(s) = 0 THEN 0
    ELSE Len(s) - (CHOOSE i \in 1..Len(s) : s[i] = ".")

\* float(s) does not raise ValueError (decimal literals only)
IsFloatLiteral(s) ==
    LET b == Unsigned(Strip(s))
        d == RemoveDots(b)
    IN  d # <<>> /\ DotCount(b) <= 1 /\ \A i \in 1..Len(d) : IsDigit(d[i])

RECURSIVE NormFloat(_, _)
NormFloat(m, e) ==
    IF e > 0 /\ m % 10 = 0 THEN NormFloat(m \div 10, e - 1)
    ELSE [m |-> m, e |-> e]

\* float(s): the value m * 10^-e, in lowest terms
FloatOf(s) ==
    LET b == Unsigned(Strip(s))
    IN  NormFloat(SignOf(Strip(s)) * DigitsValue(RemoveDots(b)), FracLen(b))

\* bool(n)
BoolOf(n) == n # 0

NULL == <<>>

Some(v) == <<v>>

(* ------------------------------ the feed ------------------------------- *)
K_free == "vdlxml_actuel"
K_total == "vdlxml_total"
K_full == "vdlxml_complet"
K_info == "vdlxml_divers"
K_price == "vdlxml_paiement"
K_lat == "vdlxml_localisationlatitude"
K_long == "vdlxml_localisationlongitude"

\* the keys the loop body reads from an entry
FieldKeys == {"title", "id", K_free, K_total, K_full, K_info, K_price, K_lat, K_long}

\* entry[k] raises KeyError
Missing(e, k) == k \notin DOMAIN e

\* None if entry[k] == '' else int(entry[k])   raises (KeyError or ValueError)
IntFieldRaises(e, k) == Missing(e, k) \/ (e[k] # <<>> /\ ~IsIntLiteral(e[k]))

\* variant: int(entry[k] or 0)
IntFieldZero(e, k) == IF e[k] = <<>> THEN Some(0) ELSE Some(IntOf(e[k]))

\* None if entry[k] == '' else int(entry[k])
IntField(e, k) == IF e[k] = <<>> THEN NULL ELSE Some(IntOf(e[k]))

\* None if entry[k] == '' else bool(int(entry[k]))
BoolField(e, k) == IF e[k] = <<>> THEN NULL ELSE Some(BoolOf(IntOf(e[k])))

\* park_lat = entry[k]; float(park_lat) if park_lat else None   raises
FloatFieldRaises(e, k) == Missing(e, k) \/ (e[k] # <<>> /\ ~IsFloatLiteral(e[k]))

\* float(park_lat) if park_lat else None
FloatField(e, k) == IF e[k] # <<>> THEN Some(FloatOf(e[k])) ELSE NULL

\* variant: an empty title is refused
RaisesBeforeTitleOrEmpty(e) ==
    \/ IntFieldRaises(e, K_free)
    \/ IntFieldRaises(e, K_total)
    \/ IntFieldRaises(e, K_full)
    \/ Missing(e, "title")
    \/ e["title"] = ""

\* an exception is raised before park_name = entry['title'] has been assigned
RaisesBeforeTitle(e) ==
    \/ IntFieldRaises(e, K_free)
    \/ IntFieldRaises(e, K_total)
    \/ IntFieldRaises(e, K_full)
    \/ Missing(e, "title")

\* park_id = int(entry['id']) raises; not evaluated for the title 'Beggen'
IdRaises(e) == e["title"] # "Beggen" /\ (Missing(e, "id") \/ ~IsIntLiteral(e["id"]))

\* variant: the fixed id is used only when the feed's id is unusable
ParkIdPreferFeed(e) ==
    IF ~Missing(e, "id") /\ IsIntLiteral(e["id"]) THEN IntOf(e["id"]) ELSE BeggenId

\* if park_name == 'Beggen': park_id = 999999  else: park_id = int(entry['id'])
ParkId(e) == IF e["title"] = "Beggen" THEN BeggenId ELSE IntOf(e["id"])

\* an exception is raised after park_name has been assigned
RaisesAfterTitle(e) ==
    \/ IdRaises(e)
    \/ Missing(e, K_info)
    \/ Missing(e, K_price)
    \/ FloatFieldRaises(e, K_lat)
    \/ FloatFieldRaises(e, K_long)

\* variant: only the latitude is tested
NoCoordinatesLatOnly(e) == FloatField(e, K_lat) = NULL

\* if park_lat is None or park_long is None: warning, continue
NoCoordinates(e) == FloatField(e, K_lat) = NULL \/ FloatField(e, K_long) = NULL

\* the outcome of one pass through the loop body for entry e
Outcome(e) ==
    IF RaisesBeforeTitle(e) THEN "raise_early"
    ELSE IF RaisesAfterTitle(e) THEN "raise"
    ELSE IF NoCoordinates(e) THEN "skip"
    ELSE "add"

\* ParkingLot(id=park_id, name=park_name, lat=park_lat, lon=park_long, ...)
LotOf(e) ==
    [id |-> ParkId(e), name |-> e["title"], lat |-> FloatField(e, K_lat),
     lon |-> FloatField(e, K_long), price |-> e[K_price], info |-> e[K_info]]

\* ParkingEntry(park_id=park_id, free=park_free, total=park_total, full=park_full,
\*              timestamp=datetime.datetime.now().replace(second=00))
ReadingOf(e, t) ==
    [park_id |-> ParkId(e), free |-> IntField(e, K_free),
     total |-> IntField(e, K_total), full |-> BoolField(e, K_full),
     timestamp |-> ReplaceSecond0(t)]

(* ---------------------------- input entries ---------------------------- *)
BaseEntry ==
    [title |-> "P1", id |-> <<"1">>, vdlxml_actuel |-> <<"7">>,
     vdlxml_total |-> <<"1", "2">>, vdlxml_complet |-> <<"0">>,
     vdlxml_divers |-> "", vdlxml_paiement |-> "free",
     vdlxml_localisationlatitude |-> <<"4", "9", ".", "6">>,
     vdlxml_localisationlongitude |-> <<"6", ".", "1", "0">>]

IntStrs == {<<>>, <<"0">>, <<"1", "2">>, <<"-", "3">>, <<" ", "4">>, <<"x">>}
FloatStrs == {<<>>, <<"0">>, <<"-", ".", "5">>, <<"1", ".", "2", ".", "3">>}
IdStrs == {<<>>, <<"2">>, <<"a", "b", "c">>, <<"9", "9", "9", "9", "9", "9">>}
Titles == {"P2", "Beggen", ""}
Texts == {"", "free"}

\* the values a field of a drawn entry ranges over
FieldValues(k) ==
    CASE k = "title" -> Titles
      [] k = "id" -> IdStrs
      [] k \in {K_free, K_total, K_full} -> IntStrs
      [] k \in {K_lat, K_long} -> FloatStrs
      [] OTHER -> Texts

\* e with key k removed
Without(e, k) == [x \in DOMAIN e \ {k} |-> e[x]]

\* the entries that differ from e in field k (another value, or the key absent)
Vary(e, k) ==
    {[e EXCEPT ![k] = v] : v \in FieldValues(k)} \cup {Without(e, k)}

\* the keys, in the order the loop body reads them
KeySeq == <<K_free, K_total, K_full, "title", "id", K_info, K_price, K_lat, K_long>>

RECURSIVE Deviations(_, _, _)
\* the entries that differ from e in at most n of the fields KeySeq[i], ...
Deviations(e, i, n) ==
    IF n = 0 \/ i > Len(KeySeq) THEN {e}
    ELSE Deviations(e, i + 1, n)
         \cup UNION {Deviations(v, i + 1, n - 1) : v \in Vary(e, KeySeq[i]) \ {e}}

DrawnEntries == Deviations(BaseEntry, 1, MaxDev)

(* ----------------------------- the store -------------------------------- *)
EmptyFn == [x \in {} |-> x]

\* Session(): a new session holds nothing
NewSession == [lots |-> EmptyFn, adds |-> <<>>]

\* variant: a lot already in the session is left as it is
MergeKeepFirst(s, lot) == [s EXCEPT !.lots = s.lots @@ (lot.id :> lot)]

\* session.merge(db_lot): the session holds one object per primary key
Merge(s, lot) == [s EXCEPT !.lots = (lot.id :> lot) @@ s.lots]

\* variant: a reading of the same lot already in the session is replaced
AddReplacing(s, reading) ==
    [s EXCEPT !.adds =
        Append(SelectSeq(s.adds, LAMBDA r : r.park_id # reading.park_id), reading)]

\* session.add(db_entry)
Add(s, reading) == [s EXCEPT !.adds = Append(s.adds, reading)]

\* nullable=False of lots.name, lots.lat, lots.lon
LotColumnsOk(lot) == lot.lat # NULL /\ lot.lon # NULL

\* variant: the table is replaced by the session's lots
FlushLotsReplace(db_lots, s) == s.lots

\* the flush of a session, as one transaction: lots rows are inserted or
\* updated by primary key
FlushLots(db_lots, s) == s.lots @@ db_lots

\* the flush of a session: one new entries row per added object
FlushEntries(db_entries, s) == db_entries \o s.adds

\* the database accepts the flush (NOT NULL columns, the foreign key)
Accepts(db_lots, s) ==
    /\ \A i \in DOMAIN s.lots : LotColumnsOk(s.lots[i])
    /\ \A j \in 1..Len(s.adds) : s.adds[j].park_id \in DOMAIN FlushLots(db_lots, s)

(* ------------------------------ the state ------------------------------ *)
VARIABLES
    pc,             \* position of the main program
    clock,          \* the wall clock, in ticks
    now,            \* poll(): now
    start_time,     \* poll(): start_time
    last_datetime,  \* HttpRequester.last_datetime
    resp,           \* what the server did with the request of this cycle
    rss,            \* what api.poll() gave: the body, or the exception raised
    feed,           \* feed.entries
    idx,            \* index in feed of the next entry of the for loop
    park_name,      \* the module-level name park_name: <<>> while unbound
    session,        \* the session of line 156
    lots,           \* table lots: id -> row
    entries,        \* table entries, in insertion order
    log,            \* the log records written since the cycle began
    worker,         \* the thread of the last get() call that was timed out
    poll_t,         \* history: the clock when poll() was called
    cycle_end,      \* history: the clock when the previous cycle ended
    fetch_start,    \* history: the clock when get() was called
    fetches,        \* history: start_time of every get() call so far
    snapshot        \* history: the two tables when the cycle began

vars == <<pc, clock, now, start_time, last_datetime, resp, rss, feed, idx,
          park_name, session, lots, entries, log, worker, poll_t, cycle_end,
          fetch_start, fetches, snapshot>>

clockVars == <<clock, now, start_time, last_datetime>>
storeVars == <<lots, entries>>
histVars == <<poll_t, cycle_end, fetch_start, fetches, snapshot>>

NoResp == [kind |-> "none"]
NoRss == [kind |-> "none"]

\* a local of poll() outside a call of poll(), and a history value not held
NoTime == 0 - 1

\* delays d by which the clock may advance from t, at most m
Delays(t, m) == {d \in 0..m : t + d <= MaxTime}

(* ------------------------------ inputs --------------------------------- *)
\* HTTP status codes the server answers with
Statuses == {200, 201, 204, 304, 404, 503, 600}

\* lot 1 again, with other attributes and counters
EntryP1b ==
    [BaseEntry EXCEPT !["title"] = "P1 bis", ![K_free] = <<"0">>, ![K_full] = <<"1">>,
                      ![K_lat] = <<"0">>, ![K_long] = <<"-", ".", "5">>,
                      ![K_price] = "paid", ![K_info] = "level 2"]
\* a lot without coordinates
EntryNoLat == [BaseEntry EXCEPT !["title"] = "P3", !["id"] = <<"3">>, ![K_lat] = <<>>]
\* a lot with a non-numeric id
EntryBadId == [BaseEntry EXCEPT !["title"] = "P4", !["id"] = <<"a", "b", "c">>]
\* an entry without the free-spaces element
EntryNoFree == Without([BaseEntry EXCEPT !["title"] = "P5", !["id"] = <<"5">>], K_free)
\* the Beggen lot, its id element absent
EntryBeggen == Without([BaseEntry EXCEPT !["title"] = "Beggen"], "id")
\* a lot whose id is the number used for Beggen
EntrySentinel == [BaseEntry EXCEPT !["title"] = "P6", !["id"] = <<"9", "9", "9", "9", "9", "9">>]

Catalogue == {BaseEntry, EntrySentinel, EntryNoLat, EntryBadId, EntryNoFree}

\* feeds in which two entries map to one lot id
SameLotFeeds ==
    {<<BaseEntry, EntryP1b>>, <<EntrySentinel, EntryBeggen>>, <<EntryBeggen, EntrySentinel>>}

MainCatalogue == {BaseEntry, EntryP1b, EntryNoLat, EntryBadId}

\* the sequences over S of length at most n
SeqsUpTo(S, n) == UNION {[1..k -> S] : k \in 0..n}

RssDoc(es) == [doc |-> "rss", entries |-> es]
Garbage == [doc |-> "garbage", entries |-> <<>>]
ErrorPage == [doc |-> "html", entries |-> <<>>]

\* response bodies of the feed URL
Bodies == {RssDoc(es) : es \in SeqsUpTo(MainCatalogue, MaxFeedLen)} \cup {Garbage}

\* what the server may do with one request: answer after delay ticks, or fail
Responses ==
    {[kind |-> "http", status |-> 200, text |-> b, delay |-> d] :
        b \in Bodies, d \in 0..(TimeoutTicks + 1)}
    \cup {[kind |-> "http", status |-> c, text |-> ErrorPage, delay |-> d] :
        c \in Statuses \ {200}, d \in 0..(TimeoutTicks + 1)}
    \cup {[kind |-> "network", status |-> 0, text |-> ErrorPage, delay |-> d] :
        d \in 0..(TimeoutTicks + 1)}

(* --------------------------- HttpRequester ----------------------------- *)
\* timeout(n): a call that would run d ticks and give x is given up after n
\* ticks with a timeout error, and otherwise gives x after d ticks
WithTimeout(n, d, x) ==
    IF d > n THEN [elapsed |-> n, result |-> [kind |-> "timeout"]]
    ELSE [elapsed |-> d, result |-> x]

\* response.raise_for_status() raises HTTPError
RaiseForStatus(code) == 400 <= code /\ code < 600

\* variant: without the status test of lines 68-70
GetResultNoCheck(r) ==
    IF r.kind = "network" THEN [kind |-> "network_error"]
    ELSE IF RaiseForStatus(r.status)
         THEN [kind |-> "http_error", exc |-> "HTTPError", code |-> r.status, text |-> r.text]
    ELSE [kind |-> "body", text |-> r.text]

\* the body of get(): what it returns or raises for response r
GetResult(r) ==
    IF r.kind = "network" THEN [kind |-> "network_error"]
    ELSE IF RaiseForStatus(r.status)
         THEN [kind |-> "http_error", exc |-> "HTTPError", code |-> r.status, text |-> r.text]
    ELSE IF r.status # 200
         THEN [kind |-> "http_error", exc |-> "UnexpectedHttpStatusCode",
               code |-> r.status, text |-> r.text]
    ELSE [kind |-> "body", text |-> r.text]

\* variant: get() without its decorator
GetUndecorated(r) == [elapsed |-> r.delay, result |-> GetResult(r)]

\* @timeout(5) def get(self): how long a call keeps poll() and what it gives
Get(r) == WithTimeout(TimeoutTicks, r.delay, GetResult(r))

Elapsed(r) == Get(r).elapsed

GetOutcome(r) == Get(r).result

\* variant: the thread goes on with get() after the call was given up
AbandonedWorkerRuns == "running"

\* timeout(n): the thread of a call that was given up; the limit bounds the
\* whole exchange, so the thread does not go on
AbandonedWorker == "stopped"

\* variant: self.last_datetime is assigned before the status is tested
LastDatetimeEarly(old, t) == t

\* self.last_datetime after get() has raised at time t: line 72 is not reached
LastDatetimeOnRaise(old, t) == old

\* variant: the schedule is computed from the time of the last request
PollNowStale == last_datetime

\* now = datetime.datetime.now(), the first statement of poll()
PollNow == clock

\* variant: an except clause of the main loop falls through to the commit
HandlerFallsToCommit == "loop"

\* variant: an except clause of the main loop ends the program
HandlerExits == "exited"

\* the except clauses of the main loop end in the next iteration of while True
HandlerNext == "poll"

\* the log record of the except clause that catches exception x of api.poll()
HandlerLog(x) ==
    IF x.kind = "http_error"
    THEN [ev |-> "http_error", code |-> x.code, text |-> x.text]
    ELSE [ev |-> "error", what |-> x.kind]

(* ------------------------------ actions -------------------------------- *)
\* api = HttpRequester(url=config.url); the schema is created
InitOk ==
    /\ pc = "init"
    /\ pc' = "poll"
    /\ UNCHANGED <<worker, clockVars, resp, rss, feed, idx, park_name, session, storeVars,
                   log, histVars>>

\* the schema creation raises: logger.error, sys.exit(2)
InitFail ==
    /\ pc = "init"
    /\ pc' = "exited"
    /\ log' = Append(log, [ev |-> "init_error"])
    /\ UNCHANGED <<worker, clockVars, resp, rss, feed, idx, park_name, session, storeVars,
                   histVars>>

\* the names of the lots that the session of a cycle whose commit failed
\* holds unwritten
Pending ==
    IF log # <<>> /\ log[Len(log)] = [ev |-> "error", what |-> "commit_error"]
    THEN {session.lots[id].name : id \in DOMAIN session.lots}
    ELSE {}

\* rss = api.poll(): poll() reads the clock and computes start_time
PollEnter ==
    /\ pc = "poll"
    /\ now' = PollNow
    /\ start_time' = NextBoundary(PollNow)
    /\ pc' = "wait"
    /\ resp' = NoResp
    /\ rss' = NoRss
    /\ log' = <<>>
    /\ poll_t' = clock
    /\ fetch_start' = NoTime
    /\ snapshot' = [lots |-> lots, entries |-> entries, pending |-> Pending]
    /\ UNCHANGED <<worker, clock, last_datetime, feed, idx, park_name, session, storeVars,
                   cycle_end, fetches>>

\* while now < start_time: time.sleep(0.1); now = datetime.datetime.now()
Sleep ==
    /\ pc = "wait"
    /\ now < start_time
    /\ \E d \in Delays(clock, MaxSleep) \ {0} :
          /\ clock' = clock + d
          /\ now' = clock + d
    /\ UNCHANGED <<worker, pc, start_time, last_datetime, resp, rss, feed, idx, park_name,
                   session, storeVars, log, histVars>>

\* the while loop ends: self.last_datetime = now; self.get() is called
WaitDone ==
    /\ pc = "wait"
    /\ ~(now < start_time)
    /\ last_datetime' = now
    /\ pc' = "get"
    /\ fetch_start' = clock
    /\ fetches' = Append(fetches, start_time)
    /\ UNCHANGED <<worker, clock, now, start_time, resp, rss, feed, idx, park_name, session,
                   storeVars, log, poll_t, cycle_end, snapshot>>

\* get() returns the body to the main loop
GetReturns ==
    /\ pc = "get"
    /\ \E r \in Responses :
          /\ clock + Elapsed(r) <= MaxTime
          /\ GetOutcome(r).kind = "body"
          /\ resp' = r
          /\ rss' = GetOutcome(r)
          /\ clock' = clock + Elapsed(r)
          /\ last_datetime' = clock + Elapsed(r)
    /\ pc' = "parse"
    /\ now' = NoTime
    /\ start_time' = NoTime
    /\ poll_t' = NoTime
    /\ cycle_end' = NoTime
    /\ UNCHANGED <<worker, feed, idx, park_name, session, storeVars, log, fetch_start,
                   fetches, snapshot>>

\* get() raises, or is timed out: an except clause of the main loop logs it
GetRaises ==
    /\ pc = "get"
    /\ \E r \in Responses :
          /\ clock + Elapsed(r) <= MaxTime
          /\ GetOutcome(r).kind # "body"
          /\ resp' = r
          /\ rss' = GetOutcome(r)
          /\ clock' = clock + Elapsed(r)
          /\ cycle_end' = clock + Elapsed(r)
          /\ log' = Append(log, HandlerLog(GetOutcome(r)))
          /\ last_datetime' = LastDatetimeOnRaise(last_datetime, clock + Elapsed(r))
          /\ worker' = IF GetOutcome(r).kind = "timeout" THEN AbandonedWorker ELSE worker
    /\ pc' = HandlerNext
    /\ now' = NoTime
    /\ start_time' = NoTime
    /\ poll_t' = NoTime
    /\ UNCHANGED <<feed, idx, park_name, session, storeVars,
                   fetch_start, fetches, snapshot>>

\* the thread of a call that was given up ends; one that went on with get()
\* reaches line 72
WorkerEnds ==
    /\ worker # "none"
    /\ worker' = "none"
    /\ last_datetime' = IF worker = "running" THEN clock ELSE last_datetime
    /\ UNCHANGED <<pc, clock, now, start_time, resp, rss, feed, idx, park_name, session,
                   storeVars, log, histVars>>

\* variant: the session of the previous cycle is used again
OpenSessionReused(prev) == prev

\* Session = sqlalchemy.orm.sessionmaker(...); session = Session(), whatever
\* the session of the previous cycle holds
OpenSession(prev) == NewSession

\* feed = feedparser.parse(rss); session = Session()
Parse ==
    /\ pc = "parse"
    /\ feed' = rss.text.entries
    /\ idx' = 1
    /\ session' = OpenSession(session)
    /\ log' = Append(log, [ev |-> "feed_received"])
    /\ pc' = "loop"
    /\ resp' = NoResp
    /\ fetch_start' = NoTime
    /\ UNCHANGED <<worker, clockVars, rss, park_name, storeVars, poll_t, cycle_end, fetches,
                   snapshot>>

\* feedparser.parse(rss) raises on a document it cannot read at all
ParseRaises ==
    /\ pc = "parse"
    /\ rss.text.doc = "garbage"
    /\ log' = Append(log, [ev |-> "error", what |-> "decode_error"])
    /\ cycle_end' = clock
    /\ pc' = HandlerNext
    /\ resp' = NoResp
    /\ fetch_start' = NoTime
    /\ UNCHANGED <<worker, clockVars, rss, feed, idx, park_name, session, storeVars,
                   poll_t, fetches, snapshot>>

\* park_name after the loop body has run for entry e
EntryName(e, prev) == IF Outcome(e) = "raise_early" THEN prev ELSE Some(e["title"])

\* the log record the loop body writes for entry e
EntryLog(e, prev) ==
    CASE Outcome(e) = "add" -> [ev |-> "lot", name |-> e["title"], id |-> ParkId(e)]
      [] Outcome(e) = "skip" -> [ev |-> "no_latlong", name |-> e["title"]]
      [] OTHER ->
           IF EntryName(e, prev) = <<>> THEN [ev |-> "entry_error_unknown"]
           ELSE [ev |-> "entry_error", name |-> EntryName(e, prev)[1]]

\* the session after the loop body has run for entry e at time t
EntrySession(s, e, t) ==
    IF Outcome(e) = "add" THEN Add(Merge(s, LotOf(e)), ReadingOf(e, t)) ELSE s

\* variant: the exception of the loop body ends the cycle
EntryHandlerAborts == "poll"

\* where the except clause of the loop body leaves the program
EntryHandlerNext == "loop"

\* one pass through the body of for entry in feed.entries
ProcessEntry ==
    /\ pc = "loop"
    /\ idx <= Len(feed)
    /\ \E d \in Delays(clock, MaxStep) :
          /\ clock' = clock + d
          /\ session' = EntrySession(session, feed[idx], clock + d)
          /\ IF Outcome(feed[idx]) \in {"raise", "raise_early"}
                /\ EntryHandlerNext # "loop"
             THEN /\ pc' = EntryHandlerNext
                  /\ cycle_end' = clock + d
             ELSE /\ pc' = "loop"
                  /\ UNCHANGED cycle_end
    /\ park_name' = EntryName(feed[idx], park_name)
    /\ log' = Append(log, EntryLog(feed[idx], park_name))
    /\ idx' = idx + 1
    /\ UNCHANGED <<worker, now, start_time, last_datetime, resp, rss, feed, storeVars,
                   poll_t, fetch_start, fetches, snapshot>>

\* variant: the lots written before the failure stay
RolledBackPartial(db, s) == [lots |-> FlushLots(db.lots, s), entries |-> db.entries]

\* variant: the readings written before the failure stay
RolledBackKeepsEntries(db, s) == [lots |-> db.lots, entries |-> FlushEntries(db.entries, s)]

\* the tables after session.commit() has raised: the transaction is rolled back
RolledBack(db, s) == db

\* session.commit() succeeds
CommitOk ==
    /\ pc = "loop"
    /\ idx > Len(feed)
    /\ Accepts(lots, session)
    /\ \E d \in Delays(clock, MinuteTicks + 1) :
          /\ clock' = clock + d
          /\ cycle_end' = clock + d
    /\ lots' = FlushLots(lots, session)
    /\ entries' = FlushEntries(entries, session)
    /\ log' = Append(log, [ev |-> "committed"])
    /\ pc' = "poll"
    /\ UNCHANGED <<worker, now, start_time, last_datetime, resp, rss, feed, idx, park_name,
                   session, poll_t, fetch_start, fetches, snapshot>>

\* session.commit() raises: except Exception logs it
CommitFail ==
    /\ pc = "loop"
    /\ idx > Len(feed)
    /\ \E d \in Delays(clock, MinuteTicks + 1) :
          /\ clock' = clock + d
          /\ cycle_end' = clock + d
    /\ lots' = RolledBack([lots |-> lots, entries |-> entries], session).lots
    /\ entries' = RolledBack([lots |-> lots, entries |-> entries], session).entries
    /\ log' = Append(log, [ev |-> "error", what |-> "commit_error"])
    /\ pc' = HandlerNext
    /\ UNCHANGED <<worker, now, start_time, last_datetime, resp, rss, feed, idx, park_name,
                   session, poll_t, fetch_start, fetches, snapshot>>

(* --------------------------- specifications ---------------------------- *)
\* the program starts at any moment of minute 0
Init ==
    /\ pc = "init"
    /\ clock \in 0..(MinuteTicks - 1)
    /\ now = NoTime
    /\ start_time = NoTime
    /\ last_datetime = clock
    /\ resp = NoResp
    /\ rss = NoRss
    /\ feed = <<>>
    /\ idx = 1
    /\ park_name = <<>>
    /\ session = NewSession
    /\ lots = EmptyFn
    /\ entries = <<>>
    /\ log = <<>>
    /\ poll_t = NoTime
    /\ cycle_end = NoTime
    /\ fetch_start = NoTime
    /\ fetches = <<>>
    /\ snapshot = [lots |-> EmptyFn, entries |-> <<>>, pending |-> {}]
    /\ worker = "none"

Next ==
    \/ InitOk
    \/ InitFail
    \/ PollEnter
    \/ Sleep
    \/ WaitDone
    \/ GetReturns
    \/ GetRaises
    \/ WorkerEnds
    \/ Parse
    \/ ParseRaises
    \/ ProcessEntry
    \/ CommitOk
    \/ CommitFail

Spec == Init /\ [][Next]_vars

(* One cycle from line 158 on, for drawn feeds: the loop over feed.entries *)
(* and the commit.  The cycle starts one tick before the clock's horizon.  *)

\* the feeds drawn: every batch over Catalogue, the feeds with a repeated lot
\* id, and every drawn entry alone
CycleFeeds ==
    SeqsUpTo(Catalogue, MaxBatch) \cup SameLotFeeds \cup {<<e>> : e \in DrawnEntries}

\* a lot 1 row and a reading stored by an earlier cycle
OldLot ==
    [id |-> 1, name |-> "P1 old", lat |-> Some(FloatOf(<<"1">>)),
     lon |-> Some(FloatOf(<<"2">>)), price |-> "", info |-> "old"]
OldReading ==
    [park_id |-> 1, free |-> Some(3), total |-> NULL, full |-> Some(FALSE), timestamp |-> 0]

\* what earlier cycles left when the cycle begins: nothing (the first cycle of
\* a first run), or rows in both tables and a value of park_name
CycleStarts ==
    {[lots |-> EmptyFn, entries |-> <<>>, park_name |-> <<>>],
     [lots |-> (1 :> OldLot), entries |-> <<OldReading>>, park_name |-> Some("P0")]}

InitCycle ==
    /\ pc = "loop"
    /\ clock = MaxTime - 1
    /\ now = NoTime
    /\ start_time = NoTime
    /\ last_datetime = clock
    /\ resp = NoResp
    /\ feed \in CycleFeeds
    /\ rss = [kind |-> "body", text |-> RssDoc(feed)]
    /\ idx = 1
    /\ session = NewSession
    /\ \E c \in CycleStarts :
          /\ park_name = c.park_name
          /\ lots = c.lots
          /\ entries = c.entries
          /\ snapshot = [lots |-> c.lots, entries |-> c.entries, pending |-> {}]
    /\ worker = "none"
    /\ log = <<[ev |-> "feed_received"]>>
    /\ poll_t = NoTime
    /\ cycle_end = NoTime
    /\ fetch_start = NoTime
    /\ fetches = <<FloorMinute(clock)>>

NextCycle ==
    \/ ProcessEntry
    \/ CommitOk
    \/ CommitFail

SpecCycle == InitCycle /\ [][NextCycle]_vars

\* the thread in poll() keeps running: a statement of poll() that can be
\* executed is eventually executed
FairSpec == Spec /\ WF_vars(PollEnter) /\ WF_vars(Sleep) /\ WF_vars(WaitDone)

(* ------------------------------ properties ----------------------------- *)
\* the last record of the cycle's log
LastLog == IF log = <<>> THEN [ev |-> "none"] ELSE log[Len(log)]

\* t is a minute boundary
IsBoundary(t) == t % MinuteTicks = 0

\* b is the first minute boundary strictly after t
FirstBoundaryAfter(b, t) == IsBoundary(b) /\ t < b /\ b <= t + MinuteTicks

\* C1: poll() called at time t waits for the minute boundary strictly after t
\* (a call on a boundary waits for the following one); the wait goes on while
\* the observed time is before that boundary and ends at the first observed
\* time at or after it, and get() is never called before the boundary.
C1_PollWaitsForNextBoundary ==
    /\ [](pc \in {"wait", "get"} => FirstBoundaryAfter(start_time, poll_t))
    /\ [](pc = "get" => /\ fetch_start >= start_time
                        /\ fetch_start = now
                        /\ last_datetime = now)
    /\ [][pc = "wait" /\ pc' = "wait" =>
             /\ start_time' = start_time
             /\ clock' # clock => now < start_time]_vars
    /\ [][pc = "wait" /\ pc' = "get" => now >= start_time /\ clock' = clock]_vars

\* C1 witness: poll() was called exactly on a boundary, waited for the next
\* one and first observed a time past it
C1_Witness ==
    /\ pc = "get"
    /\ poll_t = MinuteTicks
    /\ start_time = 2 * MinuteTicks
    /\ fetch_start > start_time

\* C2: every fetch is for the first boundary strictly after the end of the
\* previous cycle, whatever the cycle's duration or outcome: the boundaries
\* fetched for are strictly increasing (none is fetched twice, a failed fetch
\* is not repeated before the next boundary), the fetch never starts before its
\* boundary nor before poll() was called, and no boundary after the cycle's end
\* is passed over.
C2_OneFetchPerBoundary ==
    /\ pc \in {"wait", "get"} /\ cycle_end # NoTime => FirstBoundaryAfter(start_time, cycle_end)
    /\ \A i, j \in 1..Len(fetches) : i < j => fetches[i] < fetches[j]
    /\ pc = "get" => /\ fetches[Len(fetches)] = start_time
                     /\ clock >= start_time
                     /\ fetch_start >= poll_t

\* C2 witness: a cycle overran the boundary after its own, and the next wait
\* is for the boundary after the cycle's end
C2_Witness ==
    /\ pc = "wait"
    /\ Len(fetches) = 1
    /\ cycle_end > fetches[1] + MinuteTicks
    /\ start_time = fetches[1] + 2 * MinuteTicks

\* a cycle has just failed and been logged by an except clause of the main loop
CycleFailed == pc = "poll" /\ LastLog.ev \in {"error", "http_error"}

\* C3: the program ends only when the schema initialization fails; after a
\* failed fetch, an undecodable feed or a failed commit the program is back at
\* the call of poll(), which can be taken, and a failure inside the loop body
\* leaves the program in the loop; after a failed cycle the next fetch is
\* eventually started (unless the clock's horizon is reached first).
C3_LoopSurvivesFailures ==
    /\ [](pc = "exited" => log = <<[ev |-> "init_error"]>>)
    /\ [](LastLog.ev \in {"error", "http_error"} => pc = "poll")
    /\ [](LastLog.ev \in {"entry_error", "entry_error_unknown"} => pc = "loop")
    /\ [](CycleFailed => ENABLED PollEnter)
    /\ (CycleFailed ~> (pc = "get" \/ clock = MaxTime))

\* C3 witness: a commit failed and the program is back at the call of poll()
C3_Witness == CycleFailed /\ LastLog = [ev |-> "error", what |-> "commit_error"]

\* C4: for a response that arrives in time, get() returns the body exactly
\* when the status is 200; for any other status it raises an error that holds
\* the status code and the body, which the main loop logs.
C4_OnlyStatus200 ==
    resp.kind = "http" /\ resp.delay <= TimeoutTicks =>
        /\ (rss.kind = "body") <=> (resp.status = 200)
        /\ rss.kind = "body" => rss.text = resp.text /\ pc = "parse"
        /\ resp.status # 200 =>
              /\ rss.kind = "http_error"
              /\ rss.code = resp.status
              /\ rss.text = resp.text
              /\ LastLog = [ev |-> "http_error", code |-> resp.status, text |-> resp.text]
              /\ pc = "poll"

\* C4 witness: a 204 response was turned into an error holding code and body
C4_Witness == rss.kind = "http_error" /\ rss.code = 204 /\ rss.text = ErrorPage

\* C5: a fetch ends at most TimeoutSecs seconds after it started; a response
\* that would take longer gives a timeout error, the cycle is given up with the
\* tables untouched and the program is back at the call of poll() within the
\* timeout of the fetch's start.
C5_FetchBoundedByTimeout ==
    resp.kind # "none" =>
        /\ fetch_start # NoTime
        /\ clock - fetch_start <= TimeoutTicks
        /\ resp.delay > TimeoutTicks =>
              /\ rss.kind = "timeout"
              /\ pc = "poll"
              /\ cycle_end - fetch_start <= TimeoutTicks
              /\ LastLog = [ev |-> "error", what |-> "timeout"]
              /\ lots = snapshot.lots /\ entries = snapshot.entries

\* C5 witness: a fetch was timed out
C5_Witness == pc = "poll" /\ rss.kind = "timeout" /\ resp.delay > TimeoutTicks

(* The feed's field values, read independently of the conversions above.    *)

\* the integer a numeric field value stands for
IntTable ==
    (<<"0">> :> 0) @@ (<<"1">> :> 1) @@ (<<"2">> :> 2) @@ (<<"3">> :> 3)
    @@ (<<"5">> :> 5) @@ (<<"7">> :> 7)
    @@ (<<"1", "2">> :> 12) @@ (<<"-", "3">> :> (0 - 3)) @@ (<<" ", "4">> :> 4)
    @@ (<<"9", "9", "9", "9", "9", "9">> :> 999999)

\* the coordinate values that are numbers
NumericFloats ==
    {<<"0">>, <<"6", ".", "1", "0">>, <<"-", ".", "5">>, <<"4", "9", ".", "6">>}

Has(e, k) == k \in DOMAIN e

BadInt(e, k) == ~Has(e, k) \/ (e[k] # <<>> /\ e[k] \notin DOMAIN IntTable)

BadFloat(e, k) == ~Has(e, k) \/ (e[k] # <<>> /\ e[k] \notin NumericFloats)

BadId(e) == ~Has(e, "id") \/ e["id"] \notin DOMAIN IntTable

\* a field other than id is absent or not numeric where a number is needed
FaultyBesidesId(e) ==
    \/ BadInt(e, K_free) \/ BadInt(e, K_total) \/ BadInt(e, K_full)
    \/ ~Has(e, "title") \/ ~Has(e, K_info) \/ ~Has(e, K_price)
    \/ BadFloat(e, K_lat) \/ BadFloat(e, K_long)

\* the mapping of entry e raises
Faulty(e) == FaultyBesidesId(e) \/ (e["title"] # "Beggen" /\ BadId(e))

\* the latitude or the longitude of e is the empty string
EmptyCoord(e) ==
    \/ Has(e, K_lat) /\ e[K_lat] = <<>>
    \/ Has(e, K_long) /\ e[K_long] = <<>>

\* e maps without raising and has both coordinates
Normalized(e) == ~Faulty(e) /\ ~EmptyCoord(e)

\* the for loop of this cycle is running, or the cycle has just ended in commit
InCycle ==
    \/ pc = "loop"
    \/ pc = "poll" /\ LastLog.ev = "committed"
    \/ pc = "poll" /\ LastLog = [ev |-> "error", what |-> "commit_error"]

Committed == pc = "poll" /\ LastLog.ev = "committed"

\* the entries the for loop has been through, and those of them that normalized
Done == 1..(idx - 1)
Good == {i \in Done : Normalized(feed[i])}

\* the position among the session's readings of the reading of entry i
Rank(i) == Cardinality({j \in Good : j <= i})

\* the reading the session holds for entry i
ReadingFor(i) == session.adds[Rank(i)]

\* the log record the loop body wrote for entry i
LogFor(i) == log[i + 1]

IsEntryError(r) == r.ev \in {"entry_error", "entry_error_unknown"}

\* the session holds one reading per normalized entry, in feed order, and the
\* lots of exactly those entries
SessionIsGoodEntries ==
    /\ Len(session.adds) = Cardinality(Good)
    /\ \A i \in Good : ReadingFor(i).park_id \in DOMAIN session.lots
    /\ DOMAIN session.lots = {ReadingFor(i).park_id : i \in Good}

\* the commit stored one new entries row per normalized entry and upserted
\* exactly their lots, leaving every other row as it was
StoreIsGoodEntries ==
    /\ Len(entries) = Len(snapshot.entries) + Cardinality(Good)
    /\ \A j \in 1..Len(snapshot.entries) : entries[j] = snapshot.entries[j]
    /\ \A i \in Good : entries[Len(snapshot.entries) + Rank(i)] = ReadingFor(i)
    /\ DOMAIN lots = DOMAIN snapshot.lots \cup {ReadingFor(i).park_id : i \in Good}
    /\ \A id \in DOMAIN snapshot.lots :
          id \notin {ReadingFor(i).park_id : i \in Good} => lots[id] = snapshot.lots[id]

\* C6: whatever the batch and wherever a faulty entry stands in it, the faulty
\* entry is logged as a processing error and adds no lot and no reading, the
\* loop goes on to the end of the batch, and every entry that normalizes is in
\* the session and is stored by the commit of the same cycle.
C6_FaultIsolation ==
    /\ IsEntryError(LastLog) => pc = "loop"
    /\ InCycle =>
          /\ \A i \in Done : Faulty(feed[i]) <=> IsEntryError(LogFor(i))
          /\ SessionIsGoodEntries
          /\ pc = "poll" => idx = Len(feed) + 1
          /\ Committed => StoreIsGoodEntries

\* C6 witness: a batch of three with the faulty entry in the middle committed
\* its two other entries
C6_Witness ==
    /\ Committed
    /\ Len(feed) = 3
    /\ Faulty(feed[2]) /\ Normalized(feed[1]) /\ Normalized(feed[3])
    /\ Len(entries) = Len(snapshot.entries) + 2

\* the warnings of the cycle's log
Warnings == {j \in 1..Len(log) : log[j].ev = "no_latlong"}

\* what C7 says beside the warning: entries without a coordinate add nothing,
\* a successful cycle stores one reading per normalized entry and upserts
\* exactly their lots, and every lots row has lat and lon
C7_Stored ==
    /\ InCycle =>
          /\ \A i \in Done : EmptyCoord(feed[i]) => i \notin Good
          /\ SessionIsGoodEntries
          /\ Committed => StoreIsGoodEntries
    /\ \A id \in DOMAIN lots : lots[id].lat # NULL /\ lots[id].lon # NULL

\* C7 as stated: every entry with an empty latitude or longitude is logged
\* with the 'not yet usable' warning.
C7_Original ==
    /\ C7_Stored
    /\ InCycle => \A i \in Done : EmptyCoord(feed[i]) => LogFor(i).ev = "no_latlong"

\* C7, amended: an entry with an empty latitude or longitude whose fields
\* otherwise map without raising is logged with the 'not yet usable' warning
\* (and only such entries are); one whose mapping raises is logged as a
\* processing error; neither adds a lot or a reading; a successful cycle
\* stores one reading per normalized entry and upserts exactly their lots;
\* every lots row has lat and lon.
C7_Amended ==
    /\ C7_Stored
    /\ InCycle =>
          /\ \A i \in Done :
                /\ EmptyCoord(feed[i]) /\ ~Faulty(feed[i]) =>
                      LogFor(i) = [ev |-> "no_latlong", name |-> feed[i]["title"]]
                /\ EmptyCoord(feed[i]) /\ Faulty(feed[i]) => IsEntryError(LogFor(i))
                /\ LogFor(i).ev = "no_latlong" => EmptyCoord(feed[i])
          /\ Cardinality(Warnings) =
                Cardinality({i \in Done : EmptyCoord(feed[i]) /\ ~Faulty(feed[i])})

\* C7 witness: two valid entries and one without latitude gave two readings,
\* two lots and one warning
C7_Witness ==
    /\ Committed
    /\ Len(feed) = 3
    /\ Cardinality(Good) = 2
    /\ Cardinality({ReadingFor(i).park_id : i \in Good}) = 2
    /\ Cardinality(Warnings) = 1
    /\ Len(entries) = Len(snapshot.entries) + 2
    /\ \E i \in Done : feed[i][K_lat] = <<>>

\* the column value for field value v: NULL for the empty string
Nullable(v, x) == IF v = <<>> THEN NULL ELSE Some(x)

\* C8: in the reading of every normalized entry, free, total and full are NULL
\* exactly when the feed field is the empty string; otherwise free and total
\* are the field's integer and full is false for 0 and true for any other
\* integer; the committed row holds the same values.
C8_NullableNumbers ==
    InCycle =>
        \A i \in Good :
            LET e == feed[i]
                r == ReadingFor(i)
            IN  /\ r.free = Nullable(e[K_free], IntTable[e[K_free]])
                /\ r.total = Nullable(e[K_total], IntTable[e[K_total]])
                /\ r.full = Nullable(e[K_full], IntTable[e[K_full]] # 0)
                /\ (r.free = NULL) <=> (e[K_free] = <<>>)
                /\ (r.total = NULL) <=> (e[K_total] = <<>>)
                /\ (r.full = NULL) <=> (e[K_full] = <<>>)
                /\ Committed => entries[Len(snapshot.entries) + Rank(i)] = r

\* C8 witness: a committed row with free NULL, a total and full true
C8_Witness ==
    /\ Committed
    /\ \E j \in (Len(snapshot.entries) + 1)..Len(entries) :
          /\ entries[j].free = NULL
          /\ entries[j].total = Some(12)
          /\ entries[j].full = Some(TRUE)

\* C9: an entry titled "Beggen" is mapped as if its id field were not there:
\* whether the id is valid, not numeric or absent it is never a processing
\* error on account of the id, and its lot id and park_id are 999999; for any
\* other title the id is the integer of the id field.
C9_BeggenId ==
    InCycle =>
        \A i \in Done :
            LET e == feed[i]
            IN  /\ Has(e, "title") /\ e["title"] = "Beggen" /\ ~FaultyBesidesId(e) =>
                      /\ ~IsEntryError(LogFor(i))
                      /\ ~EmptyCoord(e) =>
                            /\ i \in Good
                            /\ ReadingFor(i).park_id = 999999
                            /\ session.lots[999999].id = 999999
                            /\ LogFor(i) = [ev |-> "lot", name |-> "Beggen", id |-> 999999]
                /\ i \in Good /\ e["title"] # "Beggen" =>
                      /\ ReadingFor(i).park_id = IntTable[e["id"]]
                      /\ session.lots[IntTable[e["id"]]].id = IntTable[e["id"]]

\* C9 witness: a Beggen entry with a non-numeric id was committed under 999999
C9_Witness ==
    /\ Committed
    /\ \E i \in Good :
          /\ feed[i]["title"] = "Beggen"
          /\ Has(feed[i], "id") /\ feed[i]["id"] = <<"a", "b", "c">>
          /\ entries[Len(snapshot.entries) + Rank(i)].park_id = 999999
          /\ 999999 \in DOMAIN lots

\* the commit of this cycle has just failed
CommitFailed == LastLog = [ev |-> "error", what |-> "commit_error"]

\* C10: when the commit fails, both tables are as they were when the cycle
\* began, whatever the session held, and the program is back at the call of
\* poll() for the next cycle.
C10_FailedCommitLeavesStore ==
    CommitFailed =>
        /\ lots = snapshot.lots
        /\ entries = snapshot.entries
        /\ pc = "poll"
        /\ ENABLED PollEnter

\* C10 witness: a commit failed with a new lot and a reading in the session
C10_Witness ==
    /\ CommitFailed
    /\ Len(session.adds) >= 1
    /\ \E id \in DOMAIN session.lots : id \notin DOMAIN lots

\* the lot id of entry e, read independently of the conversions
OracleId(e) == IF e["title"] = "Beggen" THEN 999999 ELSE IntTable[e["id"]]

\* the last normalized entry of the cycle's feed that maps to lot id
LastWithId(id) ==
    CHOOSE j \in Good :
        /\ OracleId(feed[j]) = id
        /\ \A k \in Good : OracleId(feed[k]) = id => k <= j

\* the rows of table entries that this cycle's commit inserted
NewRows == (Len(snapshot.entries) + 1)..Len(entries)

C12_ReadingHasItsLot ==
    /\ \A j \in 1..Len(entries) : entries[j].park_id \in DOMAIN lots
    /\ entries # snapshot.entries => Committed
    /\ Committed =>
          \A j \in NewRows :
              /\ entries[j].park_id \in DOMAIN session.lots
              /\ lots[entries[j].park_id] = session.lots[entries[j].park_id]

\* C12 witness: the second successful cycle stored a reading and its lot
C12_Witness ==
    /\ Committed
    /\ snapshot.entries # <<>>
    /\ NewRows # {}
    /\ \A j \in NewRows : entries[j].timestamp > snapshot.entries[1].timestamp

\* the minute boundary for which the cycle's get() was called
TickMinute == fetches[Len(fetches)]

\* C13: every reading the cycle queues, and every row its commit inserts, has
\* as timestamp exactly the minute boundary of the cycle's tick, without
\* seconds or a sub-second part; so the readings of one cycle agree.
C13_TimestampIsTickMinute ==
    InCycle /\ fetches # <<>> =>
        /\ \A j \in 1..Len(session.adds) : session.adds[j].timestamp = TickMinute
        /\ Committed => \A j \in NewRows : entries[j].timestamp = TickMinute

\* what C14 says of the title: an entry without one is a processing error and
\* adds nothing
C14_TitleRequired ==
    InCycle =>
        /\ \A i \in Done : ~Has(feed[i], "title") => IsEntryError(LogFor(i))
        /\ SessionIsGoodEntries
        /\ \A id \in DOMAIN session.lots : \E i \in Good : session.lots[id].name = feed[i]["title"]

\* C14 as stated: an entry whose title is the empty string gives no lot and no
\* reading, and no lots row has an empty name.
C14_Original ==
    /\ C14_TitleRequired
    /\ InCycle =>
          /\ \A i \in Done :
                Has(feed[i], "title") /\ feed[i]["title"] = "" => LogFor(i).ev # "lot"
          /\ \A id \in DOMAIN session.lots : session.lots[id].name # ""
    /\ \A id \in DOMAIN lots : lots[id].name # ""

\* C14, amended: the title is required but may be empty: an entry without a
\* title field is a processing error and adds nothing; an entry whose title is
\* the empty string and whose other fields are usable is mapped like any
\* other, to a lot with the empty name and a reading, which the commit stores.
C14_Amended ==
    /\ C14_TitleRequired
    /\ InCycle =>
          \A i \in Good :
              feed[i]["title"] = "" =>
                  /\ LogFor(i) = [ev |-> "lot", name |-> "", id |-> OracleId(feed[i])]
                  /\ ReadingFor(i).park_id = OracleId(feed[i])
                  /\ LastWithId(OracleId(feed[i])) = i =>
                        /\ session.lots[OracleId(feed[i])].name = ""
                        /\ Committed => lots[OracleId(feed[i])].name = ""

\* C14 witness: a lots row with the empty name was committed
C14_Witness ==
    /\ Committed
    /\ \E i \in Good : feed[i]["title"] = "" /\ lots[OracleId(feed[i])].name = ""

\* C15: the processing-error record of an entry names that entry's own title,
\* or is the 'unknown parking' record; it never carries another name.
C15_ErrorNamesOwnEntry ==
    InCycle =>
        \A i \in Done :
            LogFor(i).ev = "entry_error" =>
                Has(feed[i], "title") /\ LogFor(i).name = feed[i]["title"]

\* C16: no step removes a lot id from table lots, and no step changes or
\* removes a row of table entries; the tables change only in the step of a
\* successful commit.
C16_StoreOnlyGrows ==
    [][/\ DOMAIN lots \subseteq DOMAIN lots'
       /\ Len(entries) <= Len(entries')
       /\ \A j \in 1..Len(entries) : entries'[j] = entries[j]
       /\ (lots' # lots \/ entries' # entries) =>
             pc = "loop" /\ pc' = "poll" /\ LastLog'.ev = "committed"]_vars

\* C16 witness: a later cycle updated a lot stored before and appended a row,
\* after which a cycle failed
C16_Witness ==
    /\ CycleFailed
    /\ Len(entries) >= 2
    /\ entries[1].park_id = entries[2].park_id
    /\ entries[1].timestamp < entries[2].timestamp
    /\ lots[entries[1].park_id].name = "P1 bis"

\* the rows this cycle's commit inserted for lot id
RowsOf(id) == {j \in NewRows : entries[j].park_id = id}

\* C17 as stated: after a successful cycle every lot id upserted in it has
\* exactly one new entries row.
C17_Original ==
    Committed => \A id \in DOMAIN session.lots : Cardinality(RowsOf(id)) = 1

\* C17, amended: after a successful cycle there is one new entries row per
\* normalized entry of the feed: a lot id upserted in the cycle has as many
\* new rows as normalized entries map to it, one when the ids are distinct and
\* two when two entries map to the same id.
C17_Amended ==
    Committed =>
        /\ Cardinality(NewRows) = Cardinality(Good)
        /\ DOMAIN session.lots = {OracleId(feed[i]) : i \in Good}
        /\ \A id \in DOMAIN session.lots :
              Cardinality(RowsOf(id)) = Cardinality({i \in Good : OracleId(feed[i]) = id})

\* C17 witness: an entry with id 999999 and the entry titled Beggen gave two
\* new rows for lot 999999
C17_Witness ==
    /\ Committed
    /\ feed = <<EntrySentinel, EntryBeggen>>
    /\ Cardinality(RowsOf(999999)) = 2
    /\ lots[999999].name = "Beggen"

\* record r is written by an except clause for a failed fetch or decode
FailLogged(r) == r.ev = "http_error" \/ (r.ev = "error" /\ r.what # "commit_error")

\* C18: the step in which a fetch fails (timeout, status other than 200,
\* network error) or the feed cannot be decoded ends the cycle without
\* touching the session or the tables, which are as they were when the cycle
\* began, and the program is back at the call of poll(); a cycle whose feed
\* has no entries commits and leaves both tables as they were.
C18_FailedFetchLeavesStore ==
    /\ [][log' # log /\ FailLogged(LastLog') =>
             /\ pc \in {"get", "parse"}
             /\ pc' = "poll"
             /\ UNCHANGED <<session, lots, entries>>]_vars
    /\ [](FailLogged(LastLog) =>
             pc = "poll" /\ lots = snapshot.lots /\ entries = snapshot.entries)
    /\ [](Committed /\ feed = <<>> =>
             session = NewSession /\ lots = snapshot.lots /\ entries = snapshot.entries)

\* C18 witness: after a cycle that stored rows, a feed could not be decoded
C18_Witness ==
    /\ pc = "poll"
    /\ LastLog = [ev |-> "error", what |-> "decode_error"]
    /\ entries # <<>>
    /\ entries = snapshot.entries

\* the calls of get() that are being executed
InFlight == (IF pc = "get" THEN 1 ELSE 0) + (IF worker = "running" THEN 1 ELSE 0)

OracleReading(e, r) ==
    /\ r.park_id = OracleId(e)
    /\ r.free = Nullable(e[K_free], IntTable[e[K_free]])
    /\ r.total = Nullable(e[K_total], IntTable[e[K_total]])
    /\ r.full = Nullable(e[K_full], IntTable[e[K_full]] # 0)

\* C20: the session of a cycle holds the lots and readings of the normalized
\* entries of that cycle's feed and nothing else, whatever the session of the
\* cycle before held; a commit inserts exactly those readings and writes only
\* lots of that feed, so what a failed commit left unwritten is never stored.
C20_OwnSessionPerCycle ==
    InCycle =>
        /\ SessionIsGoodEntries
        /\ \A i \in Good : OracleReading(feed[i], ReadingFor(i))
        /\ \A id \in DOMAIN session.lots :
              session.lots[id].name = feed[LastWithId(id)]["title"]
        /\ Committed =>
              /\ Cardinality(NewRows) = Cardinality(Good)
              /\ \A i \in Good : entries[Len(snapshot.entries) + Rank(i)] = ReadingFor(i)
              /\ \A id \in DOMAIN lots :
                    IF id \in {OracleId(feed[i]) : i \in Good}
                    THEN lots[id] = session.lots[id]
                    ELSE id \in DOMAIN snapshot.lots /\ lots[id] = snapshot.lots[id]

\* C20 witness: the commit of a cycle failed with lot "P1" and its reading
\* unwritten, and the next cycle stored only the lot "P1 bis" of its own feed
C20_Witness ==
    /\ Committed
    /\ snapshot.pending = {"P1"}
    /\ snapshot.entries = <<>>
    /\ feed = <<EntryP1b>>
    /\ Len(entries) = 1
    /\ lots[1].name = "P1 bis"

====
